---------------------------- MODULE Spec2Model ----------------------------
(***************************************************************************)
(* A model of libuci (src/ext/libuci/uci.cpp, uci.h) as wired by the       *)
(* engine template (src/src/engine.cpp, search.cpp): the main loop that    *)
(* reads and dispatches command lines, the built-in command handlers, the  *)
(* option table, the argument reader and the work thread.                  *)
(*                                                                         *)
(* Text is a sequence of one-character strings.  A C++ exception is the    *)
(* value of an "exc" field; "none" means the call returned normally.       *)
(* The mutex of WorkThread is modelled by atomicity: every critical        *)
(* section of the code is one action, and condition_variable::wait         *)
(* releases the mutex and parks in the same step as its predicate test.    *)
(***************************************************************************)
EXTENDS Integers, Sequences, FiniteSets, TLC

VARIABLES
    mpc,            \* main thread: where it stands
    line,           \* main_loop: the line read by std::getline
    last,           \* what handling `line` did (observer record)
    s_options,      \* uci.cpp:73
    s_cmd_handlers, \* uci.cpp:207
    s_err_handler,  \* uci.cpp:208
    m_board,        \* engine.h:14
    s_work_thread,  \* uci.cpp:604: TRUE when the WorkThread exists
    m_task,         \* uci.cpp:539
    m_stop,         \* uci.cpp:543
    m_kill,         \* uci.cpp:542
    wpc,            \* work thread: where it stands in WorkThread::run
    executing,      \* the tasks whose body is being executed
    new_task,       \* launch_work_thread: the task on its way to submit_task
    input_board,    \* search.cpp:47,57: the board `think` last read, if any
    target_time     \* search.cpp:25: <<>> is INT64_MAX

vars == <<mpc, line, last, s_options, s_cmd_handlers, s_err_handler, m_board,
          s_work_thread, m_task, m_stop, m_kill, wpc, executing, new_task,
          input_board, target_time>>

-----------------------------------------------------------------------------
(* Text literals of the source.                                            *)

Lit == [
    go         |-> <<"g", "o">>,
    infinite   |-> <<"i", "n", "f", "i", "n", "i", "t", "e">>,
    wtime      |-> <<"w", "t", "i", "m", "e">>,
    winc       |-> <<"w", "i", "n", "c">>,
    btime      |-> <<"b", "t", "i", "m", "e">>,
    binc       |-> <<"b", "i", "n", "c">>,
    nodes      |-> <<"n", "o", "d", "e", "s">>,
    depth      |-> <<"d", "e", "p", "t", "h">>,
    movetime   |-> <<"m", "o", "v", "e", "t", "i", "m", "e">>,
    startpos   |-> <<"s", "t", "a", "r", "t", "p", "o", "s">>,
    fen        |-> <<"f", "e", "n">>,
    moves      |-> <<"m", "o", "v", "e", "s">>,
    name       |-> <<"n", "a", "m", "e">>,
    value      |-> <<"v", "a", "l", "u", "e">>,
    true       |-> <<"t", "r", "u", "e">>,
    uci        |-> <<"u", "c", "i">>,
    setoption  |-> <<"s", "e", "t", "o", "p", "t", "i", "o", "n">>,
    ucinewgame |-> <<"u", "c", "i", "n", "e", "w", "g", "a", "m", "e">>,
    stop       |-> <<"s", "t", "o", "p">>,
    position   |-> <<"p", "o", "s", "i", "t", "i", "o", "n">>,
    bench      |-> <<"b", "e", "n", "c", "h">>,
    isready    |-> <<"i", "s", "r", "e", "a", "d", "y">>,
    quit       |-> <<"q", "u", "i", "t">>,
    Threads    |-> <<"T", "h", "r", "e", "a", "d", "s">>,
    Hash       |-> <<"H", "a", "s", "h">> ]

\* The FEN of the initial position, kept as one symbol (uci.cpp:297).
StartposFen == <<"rnbqkbnr/pppppppp/8/8/8/8/PPPPPPPP/RNBQKBNR w KQkq - 0 1">>

\* std::isspace in the "C" locale (the vertical tab has no TLA+ literal).
isspace(c) == c \in {" ", "\t", "\n", "\r", "\f"}

Digit == [c \in {"0", "1", "2", "3", "4", "5", "6", "7", "8", "9"} |->
            CASE c = "0" -> 0 [] c = "1" -> 1 [] c = "2" -> 2 [] c = "3" -> 3
              [] c = "4" -> 4 [] c = "5" -> 5 [] c = "6" -> 6 [] c = "7" -> 7
              [] c = "8" -> 8 [] c = "9" -> 9]

isdigit(c) == c \in DOMAIN Digit

-----------------------------------------------------------------------------
(* ArgReader: a cursor [str, pos] over a text, pos counted from 0.         *)

ArgReader(str) == [str |-> str, pos |-> 0]

finished(r) == r.pos >= Len(r.str)

Slice(r, from, to) == SubSeq(r.str, from + 1, to)

RECURSIVE ScanWhile(_, _, _)
\* The first position at or after pos whose character's isspace differs from
\* `space` (the loop of read_while / read_until with the isspace predicate).
ScanWhile(str, pos, space) ==
    IF pos < Len(str) /\ (isspace(str[pos + 1]) = space)
    THEN ScanWhile(str, pos + 1, space)
    ELSE pos

\* read_while([](char c) { return std::isspace(c); })
read_while_space(r) ==
    IF finished(r) THEN [r |-> r, s |-> <<>>]
    ELSE LET p == ScanWhile(r.str, r.pos, TRUE)
         IN  [r |-> [r EXCEPT !.pos = p], s |-> Slice(r, r.pos, p)]

\* read_until([](char c) { return std::isspace(c); })
read_until_space(r) ==
    IF finished(r) THEN [r |-> r, s |-> <<>>]
    ELSE LET p == ScanWhile(r.str, r.pos, FALSE)
         IN  [r |-> [r EXCEPT !.pos = p], s |-> Slice(r, r.pos, p)]

skip_whitespace(r) == read_while_space(r).r

peek_remainder(r) == Slice(r, r.pos, Len(r.str))

read_word(r) == read_until_space(skip_whitespace(r))

-----------------------------------------------------------------------------
(* std::stoll.  A long long is 64 bits wide; TLC's integers are narrower,   *)
(* so the range test is made on the digits and the value is computed only   *)
(* for numerals that are in range.                                          *)

\* The digits of LLONG_MAX, 9223372036854775807.
LLongMaxDigits == <<9, 2, 2, 3, 3, 7, 2, 0, 3, 6, 8, 5, 4, 7, 7, 5, 8, 0, 7>>

RECURSIVE DigitRun(_, _)
\* The longest run of decimal digits of str that starts at index i (1-based).
DigitRun(str, i) ==
    IF i <= Len(str) /\ isdigit(str[i])
    THEN <<Digit[str[i]]>> \o DigitRun(str, i + 1)
    ELSE <<>>

RECURSIVE StripZeros(_)
StripZeros(ds) == IF ds # <<>> /\ ds[1] = 0 THEN StripZeros(Tail(ds)) ELSE ds

RECURSIVE LexLess(_, _)
\* a < b for digit sequences of the same length.
LexLess(a, b) ==
    IF a = <<>> THEN FALSE
    ELSE IF a[1] # b[1] THEN a[1] < b[1]
    ELSE LexLess(Tail(a), Tail(b))

\* A std::int64_t is its two's complement representation: four digits of
\* sixteen bits, the least significant first.
Radix == 65536

RECURSIVE MulAdd(_, _, _)
\* a * m + carry, modulo 2^64 (m and carry below Radix).
MulAdd(a, m, carry) ==
    IF a = <<>> THEN <<>>
    ELSE LET t == a[1] * m + carry
         IN  <<t % Radix>> \o MulAdd(Tail(a), m, t \div Radix)

RECURSIVE AddCarry(_, _, _)
\* a + b + carry, modulo 2^64.
AddCarry(a, b, carry) ==
    IF a = <<>> THEN <<>>
    ELSE LET t == a[1] + b[1] + carry
         IN  <<t % Radix>> \o AddCarry(Tail(a), Tail(b), t \div Radix)

Add64(a, b) == AddCarry(a, b, 0)

\* -a
Neg64(a) == AddCarry([i \in 1..4 |-> Radix - 1 - a[i]], <<1, 0, 0, 0>>, 0)

IsNeg64(a) == a[4] >= Radix \div 2

\* The std::int64_t of an int: the sign is extended.
I64(n) ==
    LET sign == IF n < 0 THEN Radix - 1 ELSE 0
    IN  <<n % Radix, (n \div Radix) % Radix, sign, sign>>

RECURSIVE LessFrom(_, _, _)
\* Whether a < b as unsigned numbers, comparing digits i, i-1, ..., 1.
LessFrom(a, b, i) ==
    IF i = 0 THEN FALSE
    ELSE IF a[i] # b[i] THEN a[i] < b[i]
    ELSE LessFrom(a, b, i - 1)

\* a < b for std::int64_t.
Less64(a, b) ==
    IF IsNeg64(a) # IsNeg64(b) THEN IsNeg64(a) ELSE LessFrom(a, b, 4)

RECURSIVE DivFrom(_, _, _, _)
\* The quotient of the unsigned a by d, from digit i down, given the
\* remainder of the digits above.
DivFrom(a, d, i, rem) ==
    IF i = 0 THEN <<>>
    ELSE LET t == rem * Radix + a[i]
         IN  DivFrom(a, d, i - 1, t % d) \o <<t \div d>>

\* a / d of C++ for 0 < d < Radix: the quotient is truncated towards zero.
Div64(a, d) ==
    IF IsNeg64(a) THEN Neg64(DivFrom(Neg64(a), d, 4, 0)) ELSE DivFrom(a, d, 4, 0)

RECURSIVE Horner(_, _)
\* The value of the decimal digits ds appended to acc.
Horner(ds, acc) ==
    IF ds = <<>> THEN acc ELSE Horner(Tail(ds), MulAdd(acc, 10, ds[1]))

\* Whether the magnitude `ds` (no leading zeros) with sign `neg` is outside
\* [LLONG_MIN, LLONG_MAX]; |LLONG_MIN| = LLONG_MAX + 1.
OutOfLLong(ds, neg) ==
    \/ Len(ds) > Len(LLongMaxDigits)
    \/ /\ Len(ds) = Len(LLongMaxDigits)
       /\ LexLess(LLongMaxDigits, ds)
       /\ ~(neg /\ ds = [LLongMaxDigits EXCEPT ![Len(LLongMaxDigits)] = 8])

\* std::stoll(s): an optional sign, then the longest run of digits; what
\* follows the digits is ignored.  No digit: std::invalid_argument.  A value
\* that does not fit: std::out_of_range.
stoll(s) ==
    LET signed == s # <<>> /\ s[1] \in {"+", "-"}
        neg    == s # <<>> /\ s[1] = "-"
        run    == DigitRun(s, IF signed THEN 2 ELSE 1)
        ds     == StripZeros(run)
    IN  IF run = <<>> THEN [exc |-> "invalid_argument", v |-> I64(0)]
        ELSE IF OutOfLLong(ds, neg) THEN [exc |-> "out_of_range", v |-> I64(0)]
        ELSE [exc |-> "none", v |-> IF neg THEN Neg64(Horner(ds, I64(0)))
                                          ELSE Horner(ds, I64(0))]

\* std::optional<T>: the empty sequence is std::nullopt, <<v>> holds v.
nullopt == <<>>

Some(v) == <<v>>

\* ArgReader::try_read_int: only std::invalid_argument is caught; a
\* std::out_of_range of stoll leaves the function with the cursor moved.
try_read_int(r) ==
    LET pos_before == r.pos
        w == read_word(skip_whitespace(r))
        n == stoll(w.s)
    IN  CASE n.exc = "none" -> [r |-> w.r, exc |-> "none", v |-> Some(n.v)]
          [] n.exc = "invalid_argument" ->
                [r |-> [r EXCEPT !.pos = pos_before], exc |-> "none", v |-> nullopt]
          [] OTHER -> [r |-> w.r, exc |-> n.exc, v |-> nullopt]

\* A read_int that takes a missing integer for 0.
read_int_or_zero(r) ==
    LET n == try_read_int(r)
    IN  IF n.exc = "none" /\ n.v = nullopt
        THEN [r |-> n.r, exc |-> "none", v |-> Some(I64(0))]
        ELSE n

\* ArgReader::read_int
read_int(r) ==
    LET n == try_read_int(r)
    IN  IF n.exc = "none" /\ n.v = nullopt
        THEN [r |-> n.r, exc |-> "InputError", v |-> nullopt]
        ELSE n

-----------------------------------------------------------------------------
(* The go handler (register_go).                                           *)

\* GoArgs {} (uci.h:260-273)
GoArgs == [depth |-> nullopt, w_time |-> nullopt, w_inc |-> nullopt,
           b_time |-> nullopt, b_inc |-> nullopt, move_time |-> nullopt,
           nodes |-> nullopt, infinite |-> TRUE]

\* The field a limit keyword of go sets; "" for any other word.
GoField(word) ==
    CASE word = Lit.wtime    -> "w_time"
      [] word = Lit.winc     -> "w_inc"
      [] word = Lit.btime    -> "b_time"
      [] word = Lit.binc     -> "b_inc"
      [] word = Lit.nodes    -> "nodes"
      [] word = Lit.depth    -> "depth"
      [] word = Lit.movetime -> "move_time"
      [] OTHER               -> ""

\* The conversion of std::int64_t to the int of GoArgs::depth: the low 32
\* bits, as a signed number.
to_int(v) ==
    IF v[2] >= Radix \div 2 THEN (v[2] - Radix) * Radix + v[1]
    ELSE v[2] * Radix + v[1]

RECURSIVE go_loop(_, _, _)
\* The while loop of the go handler, entered with `word` just read.  exc is
\* "diverges" when the loop never ends: `continue` on the word "infinite"
\* tests the same word again without reading the next one.
go_loop(reader, word, go_args) ==
    IF word = <<>> THEN [exc |-> "none", go_args |-> go_args]
    ELSE IF word = Lit.infinite
    THEN IF ~go_args.infinite
         THEN [exc |-> "InputError", go_args |-> go_args]
         ELSE [exc |-> "diverges", go_args |-> go_args]
    ELSE LET ga == [go_args EXCEPT !.infinite = FALSE]
             f  == GoField(word)
         IN  IF f = "" THEN [exc |-> "InputError", go_args |-> ga]
             ELSE LET n == read_int(reader)
                  IN  IF n.exc # "none" THEN [exc |-> n.exc, go_args |-> ga]
                      ELSE LET w == read_word(n.r)
                               x == IF f = "depth" THEN to_int(n.v[1]) ELSE n.v[1]
                           IN  go_loop(w.r, w.s, [ga EXCEPT ![f] = Some(x)])

\* The handler register_go installs, up to its call of the caller's handler.
go_parse(args) ==
    LET w == read_word(ArgReader(args))
    IN  go_loop(w.r, w.s, GoArgs)

-----------------------------------------------------------------------------
(* The position handler (register_position).                               *)

RECURSIVE fen_loop(_, _)
\* The loop that collects the words of a FEN: each word is followed by ' '.
fen_loop(reader, fen_stream) ==
    IF finished(reader) THEN [r |-> reader, s |-> fen_stream]
    ELSE LET r1 == skip_whitespace(reader)
             remainder == peek_remainder(r1)
         IN  IF Len(remainder) >= 5 /\ SubSeq(remainder, 1, 5) = Lit.moves
             THEN [r |-> r1, s |-> fen_stream]
             ELSE LET w == read_word(r1)
                  IN  fen_loop(w.r, fen_stream \o w.s \o <<" ">>)

\* A loop that takes the first move and leaves the rest.
moves_loop_first(reader, word, moves) ==
    IF word = <<>> THEN moves ELSE <<word>>

RECURSIVE moves_loop(_, _, _)
\* The loop that collects the moves, entered with `word` just read.
moves_loop(reader, word, moves) ==
    IF word = <<>> THEN moves
    ELSE LET w == read_word(reader)
         IN  moves_loop(w.r, w.s, Append(moves, word))

\* The handler register_position installs, up to its call of the caller's
\* handler.  temporary: args.fen is a std::string_view of the temporary
\* std::string returned by fen_stream.str(), which is destroyed before the
\* view is read.
position_parse(args) ==
    LET w == read_word(ArgReader(args))
        bad == [exc |-> "InputError", fen |-> <<>>, moves |-> <<>>, temporary |-> FALSE]
        first ==
            CASE w.s = Lit.startpos -> [exc |-> "none", r |-> w.r, fen |-> StartposFen, temporary |-> FALSE]
              [] w.s = Lit.fen ->
                    LET f == fen_loop(w.r, <<>>)
                    IN  [exc |-> "none", r |-> f.r, fen |-> f.s, temporary |-> TRUE]
              [] OTHER -> [exc |-> "InputError", r |-> w.r, fen |-> <<>>, temporary |-> FALSE]
    IN  IF first.exc # "none" THEN bad
        ELSE LET w2 == read_word(first.r)
             IN  IF w2.s = <<>>
                 THEN [exc |-> "none", fen |-> first.fen, moves |-> <<>>,
                       temporary |-> first.temporary]
                 ELSE IF w2.s # Lit.moves THEN bad
                 ELSE LET w3 == read_word(w2.r)
                      IN  [exc |-> "none", fen |-> first.fen,
                           moves |-> moves_loop(w3.r, w3.s, <<>>),
                           temporary |-> first.temporary]

-----------------------------------------------------------------------------
(* The option table.                                                        *)

\* OptionType (uci.h:125-130), the index of the active OptionValue alternative.
Button == 0
Spin   == 1
String == 2
Check  == 3

OptionValue(index, v) == [index |-> index, v |-> v]

monostate == OptionValue(Button, "monostate")

\* Option::type
type(opt) == opt.current.index

\* register_spin_option: `get` is the alternative the installed
\* change_handler reads with std::get before calling the caller's handler.
spin_option(default_value, min, max) ==
    [current |-> OptionValue(Spin, default_value), get |-> Spin,
     default_value |-> OptionValue(Spin, default_value), min |-> min, max |-> max]

\* register_check_option: the installed change_handler reads the value
\* with std::get<std::int64_t>.
check_option(default_value) ==
    [current |-> OptionValue(Check, default_value), get |-> Spin,
     default_value |-> OptionValue(Check, default_value),
     min |-> I64(0), max |-> I64(0)]

\* register_string_option
string_option(default_value) ==
    [current |-> OptionValue(String, default_value), get |-> String,
     default_value |-> OptionValue(String, default_value),
     min |-> I64(0), max |-> I64(0)]

\* register_button_option: the installed change_handler does not read the
\* value, and default_value is value-initialized.
button_option ==
    [current |-> monostate, get |-> Button, default_value |-> monostate,
     min |-> I64(0), max |-> I64(0)]

\* opt.change_handler(value)
change_handler(opt, value) ==
    IF opt.get # Button /\ opt.get # value.index THEN "bad_variant_access" ELSE "none"

\* A set_option that tests a spin value against max alone.
set_option_no_minimum(options, name, value) ==
    LET same == [exc |-> "none", options |-> options, calls |-> <<>>]
    IN  IF name \notin DOMAIN options THEN [same EXCEPT !.exc = "out_of_range"]
        ELSE LET opt == options[name]
             IN  IF opt.current.index # value.index
                 THEN [same EXCEPT !.exc = "invalid_argument"]
                 ELSE IF opt.current.index = Spin /\ Less64(opt.max, value.v)
                 THEN [same EXCEPT !.exc = "InputError"]
                 ELSE [exc |-> change_handler(opt, value),
                       options |-> [options EXCEPT ![name].current = value],
                       calls |-> IF change_handler(opt, value) = "none"
                                 THEN <<value>> ELSE <<>>]

\* A set_option that stores a value of any alternative.
set_option_untyped(options, name, value) ==
    LET same == [exc |-> "none", options |-> options, calls |-> <<>>]
    IN  IF name \notin DOMAIN options THEN [same EXCEPT !.exc = "out_of_range"]
        ELSE [exc |-> change_handler(options[name], value),
              options |-> [options EXCEPT ![name].current = value],
              calls |-> IF change_handler(options[name], value) = "none"
                        THEN <<value>> ELSE <<>>]

\* set_option: the table afterwards, the exception thrown and the values
\* the change handler was called with.
set_option(options, name, value) ==
    LET same == [exc |-> "none", options |-> options, calls |-> <<>>]
    IN  IF name \notin DOMAIN options THEN [same EXCEPT !.exc = "out_of_range"]
        ELSE LET opt == options[name]
             IN  IF opt.current.index # value.index
                 THEN [same EXCEPT !.exc = "invalid_argument"]
                 ELSE IF opt.current.index = Spin /\ Less64(opt.max, value.v)
                 THEN [same EXCEPT !.exc = "InputError"]
                 ELSE IF opt.current.index = Spin /\ Less64(value.v, opt.min)
                 THEN [same EXCEPT !.exc = "InputError"]
                 ELSE [exc |-> change_handler(opt, value),
                       options |-> [options EXCEPT ![name].current = value],
                       calls |-> IF change_handler(opt, value) = "none"
                                 THEN <<value>> ELSE <<>>]

\* get_option<T>, T being the alternative `index` of OptionValue.
get_option(options, name, index) ==
    IF name \notin DOMAIN options THEN [exc |-> "InputError", v |-> monostate.v]
    ELSE IF options[name].current.index # index
    THEN [exc |-> "InputError", v |-> monostate.v]
    ELSE [exc |-> "none", v |-> options[name].current.v]

\* A get_option_info that reports the default value as the current one.
get_option_info_default(options, opt_name) ==
    LET option == options[opt_name]
    IN  [current_value |-> option.default_value, name |-> opt_name,
         type |-> type(option), default_value |-> option.default_value,
         min |-> OptionValue(Spin, option.min), max |-> OptionValue(Spin, option.max)]

\* get_option_info
get_option_info(options, opt_name) ==
    LET option == options[opt_name]
    IN  [current_value |-> option.current, name |-> opt_name, type |-> type(option),
         default_value |-> option.default_value,
         min |-> OptionValue(Spin, option.min), max |-> OptionValue(Spin, option.max)]

\* The characters of option names, in the order of their codes.
Letters == <<"A", "B", "C", "D", "E", "F", "G", "H", "I", "J", "K", "L", "M",
             "N", "O", "P", "Q", "R", "S", "T", "U", "V", "W", "X", "Y", "Z",
             "a", "b", "c", "d", "e", "f", "g", "h", "i", "j", "k", "l", "m",
             "n", "o", "p", "q", "r", "s", "t", "u", "v", "w", "x", "y", "z">>

RECURSIVE StringLess(_, _)
\* a < b for std::string, the order of the keys of std::map.
StringLess(a, b) ==
    IF b = <<>> THEN FALSE
    ELSE IF a = <<>> THEN TRUE
    ELSE IF a[1] # b[1]
    THEN (CHOOSE i \in DOMAIN Letters : Letters[i] = a[1])
            < (CHOOSE i \in DOMAIN Letters : Letters[i] = b[1])
    ELSE StringLess(Tail(a), Tail(b))

RECURSIVE Ordered(_)
\* The keys of a std::map in the order of iteration.
Ordered(names) ==
    IF names = {} THEN <<>>
    ELSE LET first == CHOOSE n \in names : \A o \in names \ {n} : StringLess(n, o)
         IN  <<first>> \o Ordered(names \ {first})

\* get_all_options
get_all_options(options) ==
    LET names == Ordered(DOMAIN options)
    IN  [i \in DOMAIN names |->
            [current_value |-> options[names[i]].current, name |-> names[i],
             type |-> type(options[names[i]]),
             default_value |-> options[names[i]].default_value,
             min |-> OptionValue(Spin, options[names[i]].min),
             max |-> OptionValue(Spin, options[names[i]].max)]]

\* The handler register_setoption installs.
setoption_handler(args, options) ==
    LET same == [exc |-> "none", options |-> options, calls |-> <<>>]
        bad  == [same EXCEPT !.exc = "InputError"]
        w1 == read_word(ArgReader(args))
        w2 == read_word(w1.r)
        w3 == read_word(w2.r)
        w4 == read_word(w3.r)
        name == w2.s
        value == w4.s
    IN  IF w1.s # Lit.name THEN bad
        ELSE IF name = <<>> THEN bad
        ELSE IF name \notin DOMAIN options THEN bad
        ELSE IF w3.s # Lit.value THEN bad
        ELSE CASE type(options[name]) = Button -> set_option(options, name, monostate)
               [] type(options[name]) = Spin ->
                     LET n == stoll(value)
                     IN  IF n.exc # "none" THEN [same EXCEPT !.exc = n.exc]
                         ELSE set_option(options, name, OptionValue(Spin, n.v))
               [] type(options[name]) = String ->
                     set_option(options, name, OptionValue(String, value))
               [] type(options[name]) = Check ->
                     set_option(options, name, OptionValue(Check, value = Lit.true))

-----------------------------------------------------------------------------
(* What the handlers write to std::cout.                                    *)

RECURSIVE Digits(_)
\* The decimal digits of the unsigned a, none for zero.
Digits(a) ==
    IF a = I64(0) THEN <<>>
    ELSE LET q == DivFrom(a, 10, 4, 0)
             r == Add64(a, Neg64(MulAdd(q, 10, 0)))[1]
         IN  Digits(q) \o <<CHOOSE c \in DOMAIN Digit : Digit[c] = r>>

\* stream << n for a std::int64_t n
PutInt64(n) ==
    IF n = I64(0) THEN <<"0">>
    ELSE IF IsNeg64(n) THEN <<"-">> \o Digits(Neg64(n)) ELSE Digits(n)

\* operator<<(std::ostream&, const OptionType&)
PutOptionType(t) ==
    CASE t = Spin -> <<"s", "p", "i", "n">>
      [] t = String -> <<"s", "t", "r", "i", "n", "g">>
      [] t = Check -> <<"c", "h", "e", "c", "k">>
      [] OTHER -> <<"u", "n", "k", "n", "o", "w", "n">>

\* The line the uci handler prints for the OptionInfo opt.
option_line(opt) ==
    <<"o", "p", "t", "i", "o", "n", " ">> \o opt.name
    \o <<" ", "t", "y", "p", "e", " ">> \o PutOptionType(opt.type) \o
    CASE opt.type = Spin ->
            <<" ", "d", "e", "f", "a", "u", "l", "t", " ">> \o PutInt64(opt.default_value.v) \o
            <<" ", "m", "i", "n", " ">> \o PutInt64(opt.min.v) \o <<" ", "m", "a", "x", " ">> \o PutInt64(opt.max.v)
      [] opt.type = String -> <<" ", "d", "e", "f", "a", "u", "l", "t", " ">> \o opt.default_value.v
      [] opt.type = Check ->
            <<" ", "d", "e", "f", "a", "u", "l", "t", " ">> \o (IF opt.default_value.v THEN <<"t", "r", "u", "e">> ELSE <<"f", "a", "l", "s", "e">>)
      [] OTHER -> <<>>

\* The handler register_uci installs: the lines it writes.
uci_handler(engine_name, author_name, options) ==
    LET infos == get_all_options(options)
    IN  <<IF engine_name # <<>> THEN <<"i", "d", " ", "n", "a", "m", "e", " ">> \o engine_name
          ELSE <<"i", "d", " ", "n", "a", "m", "e", " ", "U", "n", "n", "a", "m", "e", "d", " ", "E", "n", "g", "i", "n", "e">>>>
        \o (IF author_name # <<>> THEN <<<<"i", "d", " ", "a", "u", "t", "h", "o", "r", " ">> \o author_name>> ELSE <<>>)
        \o [i \in DOMAIN infos |-> option_line(infos[i])]
        \o <<<<"u", "c", "i", "o", "k">>>>

\* The lines the handler `h` of Engine::initialize writes.
Output(h, options) ==
    CASE h = "uci" -> uci_handler(<<"M", "y", " ", "E", "n", "g", "i", "n", "e", " ", "N", "a", "m", "e">>, <<"M", "y", " ", "N", "a", "m", "e">>, options)
      [] h = "isready" -> <<<<"r", "e", "a", "d", "y", "o", "k">>>>
      [] h = "bench" -> <<<<"2", "0", "0", "0", " ", "n", "o", "d", "e", "s", " ", "2", "0", "0", "0", " ", "n", "p", "s">>>>
      [] OTHER -> <<>>

-----------------------------------------------------------------------------
(* The state after Engine::initialize, and the inputs.                      *)

\* The number of tasks that exist at one time: one being executed, one in
\* m_task, one on its way into submit_task.
MaxTasks == 3

\* nullptr as a Task.
NoTask == [id |-> 0, kind |-> "none", args |-> GoArgs]

\* A task: "think" is the lambda of engine.cpp:40-43; "poller" and "deaf"
\* are tasks of other callers of launch_work_thread: one that polls its
\* StopSignal and returns once it reads true, one that never reads it and
\* never returns.
Task(id, kind, args) == [id |-> id, kind |-> kind, args |-> args]

\* An identifier no existing task has (0 when there is none).
FreeId ==
    LET used == {m_task.id, new_task.id} \cup {t.id : t \in executing}
        free == (1..MaxTasks) \ used
    IN  IF free = {} THEN 0 ELSE CHOOSE i \in free : \A j \in free : i <= j

\* chess::Board as the engine uses it: the FEN it was built from and the
\* moves made on it.
Board(fen, moves) == [fen |-> fen, moves |-> moves]

\* The handlers Engine::initialize registers, by command name.
EngineCommands ==
    [c \in {Lit.uci, Lit.setoption, Lit.ucinewgame, Lit.stop, Lit.position,
            Lit.go, Lit.bench, Lit.isready, Lit.quit} |->
        CASE c = Lit.uci        -> "uci"
          [] c = Lit.setoption  -> "setoption"
          [] c = Lit.ucinewgame -> "ucinewgame"
          [] c = Lit.stop       -> "stop"
          [] c = Lit.position   -> "position"
          [] c = Lit.go         -> "go"
          [] c = Lit.bench      -> "bench"
          [] c = Lit.isready    -> "isready"
          [] c = Lit.quit       -> "quit"]

\* The options Engine::initialize registers.
EngineOptions ==
    [n \in {Lit.Threads, Lit.Hash} |->
        IF n = Lit.Threads THEN spin_option(I64(1), I64(1), I64(1))
        ELSE spin_option(I64(32), I64(1), I64(1024 * 1024))]

RECURSIVE Join(_)
\* Words separated by one space.
Join(ws) ==
    IF ws = <<>> THEN <<>>
    ELSE IF Len(ws) = 1 THEN ws[1]
    ELSE ws[1] \o <<" ">> \o Join(Tail(ws))

\* A numeral of twenty digits: more than a long long holds.
TwentyDigits == [i \in 1..20 |-> "9"]

\* The lines the client sends.
Lines == {
    <<>>,
    <<" ", "\t">>,
    <<"x", "y">>,
    Lit.stop \o <<"x">>,
    Lit.uci,
    Lit.isready,
    Lit.stop,
    Lit.quit,
    Lit.go,
    <<" ">> \o Lit.go \o <<" ", " ">>,
    Join(<<Lit.go, Lit.infinite>>),
    Join(<<Lit.go, Lit.movetime, <<"5", "0", "0">>>>),
    Join(<<Lit.go, Lit.depth, <<"x">>>>),
    Join(<<Lit.go, Lit.depth, <<"3">>, Lit.infinite>>),
    Join(<<Lit.go, Lit.depth, TwentyDigits>>),
    Join(<<Lit.go, <<"f", "o", "o">>>>),
    Lit.position,
    Join(<<Lit.position, Lit.startpos, Lit.moves, <<"e", "2", "e", "4">>>>),
    Join(<<Lit.position, Lit.startpos, <<"e", "2", "e", "4">>>>),
    Join(<<Lit.position, <<"k", "7">>>>),
    Join(<<Lit.setoption, Lit.name, Lit.Hash, Lit.value, <<"6", "4">>>>),
    Join(<<Lit.setoption, Lit.name, Lit.Hash, Lit.value, <<"0">>>>),
    Join(<<Lit.setoption, Lit.name, Lit.Hash, Lit.value, <<"a", "b", "c">>>>),
    Join(<<Lit.setoption, Lit.name, Lit.Hash, Lit.value, TwentyDigits>>),
    Join(<<Lit.setoption, Lit.name, <<"F", "o", "o">>, Lit.value, <<"1">>>>),
    Join(<<Lit.setoption, Lit.Hash>>) }

\* Decimal numerals and the std::int64_t each denotes.
GoNumerals == {
    [text |-> <<"5">>, value |-> <<5, 0, 0, 0>>],
    [text |-> <<"-", "3">>, value |-> <<65533, 65535, 65535, 65535>>],
    [text |-> <<"4", "2", "9", "4", "9", "6", "7", "2", "9", "7">>,
     value |-> <<1, 0, 1, 0>>] }

\* The limit keywords of go.
LimitKeys == {Lit.wtime, Lit.winc, Lit.btime, Lit.binc, Lit.nodes, Lit.depth,
              Lit.movetime}

\* The number of limits on a go line.
MaxGoPairs == 2

\* go lines made of limit keywords, each followed by a numeral.
GoPairSeqs ==
    UNION {[1..n -> [key : LimitKeys, num : GoNumerals]] : n \in 0..MaxGoPairs}

RECURSIVE GoWords(_)
GoWords(ps) ==
    IF ps = <<>> THEN <<>>
    ELSE <<ps[1].key, ps[1].num.text>> \o GoWords(Tail(ps))

GoCases == {[line |-> Join(<<Lit.go>> \o GoWords(ps)), pairs |-> ps] : ps \in GoPairSeqs}

GoLines == {c.line : c \in GoCases}

\* go lines with an unknown word, a keyword without an integer after it,
\* and infinite after a limit.
BadGoLines == {
    Join(<<Lit.go, <<"f", "o", "o">>>>),
    Join(<<Lit.go, Lit.depth, <<"x">>>>),
    Join(<<Lit.go, Lit.wtime>>),
    Join(<<Lit.go, Lit.depth, <<"3">>, Lit.infinite>>) }

\* The lines of a client that only searches.
WorkerLines == BadGoLines \cup {
    Lit.isready,
    Lit.stop,
    Lit.quit,
    Lit.go,
    Join(<<Lit.go, Lit.movetime, <<"5", "0", "0">>>>),
    Join(<<Lit.position, Lit.startpos, Lit.moves, <<"e", "2", "e", "4">>>>) }

\* The tasks a caller other than the go handler launches.
CallerTaskKinds == {"poller", "deaf"}

\* The handlers a caller installs with set_error_handler: "returning" logs
\* and returns normally.
ErrorHandlers == {"default", "returning"}

\* What handling the current line did.
NoTrace == [handler |-> "none", exc |-> "none", err_calls |-> 0,
            cerr |-> "none", callback |-> 0, out |-> <<>>]

\* The value of `line` before a line is read: std::getline stores no '\n'.
NoLine == <<"\n">>

\* The value of a std::string_view whose storage was destroyed.
Garbage == <<"?">>

Init ==
    /\ mpc = "getline"
    /\ line = NoLine
    /\ last = NoTrace
    /\ s_options = EngineOptions
    /\ s_cmd_handlers = EngineCommands
    /\ s_err_handler = "default"
    /\ m_board = Board(StartposFen, <<>>)
    /\ s_work_thread = FALSE
    /\ m_task = NoTask
    /\ m_stop = FALSE
    /\ m_kill = FALSE
    /\ wpc = "none"
    /\ executing = {}
    /\ new_task = NoTask
    /\ input_board = nullopt
    /\ target_time = nullopt

-----------------------------------------------------------------------------
(* The work thread.                                                         *)

mainVars == <<line, last, s_options, s_cmd_handlers, s_err_handler, m_board>>

\* The process runs: std::terminate was not called and std::exit has not
\* finished.
alive == mpc \notin {"terminated", "exited"}

\* WorkThread::should_stop, the StopSignal a task body is given.
should_stop == m_stop

\* WorkThread::running
running == m_task # NoTask

\* work_thread_running
work_thread_running == IF ~s_work_thread THEN FALSE ELSE running

\* A stop_current_task that returns only once no body is executing.
stop_current_task_joining == executing = {} /\ m_stop' = TRUE

\* WorkThread::stop_current_task
stop_current_task == m_stop' = TRUE

\* stop_work_thread, `exists` being whether s_work_thread is set.
stop_work_thread(exists) ==
    IF ~exists THEN m_stop' = m_stop ELSE stop_current_task

\* awake_work_thread: the constructor of WorkThread starts the thread.
awake_work_thread ==
    IF s_work_thread
    THEN UNCHANGED <<s_work_thread, wpc>>
    ELSE s_work_thread' = TRUE /\ wpc' = "top"

\* A notify_one that wakes no thread.
notify_none == wpc' = wpc

\* m_cond_var.notify_one(): the work thread, if it is parked, tests its
\* predicate again.
notify_one == wpc' = IF wpc = "parked" THEN "top" ELSE wpc

\* A launch_work_thread that waits until no body is executing.
launch_work_thread_waiting(task) ==
    /\ executing = {}
    /\ task.id # 0
    /\ awake_work_thread
    /\ stop_work_thread(s_work_thread')
    /\ new_task' = task
    /\ mpc' = "submit"
    /\ UNCHANGED <<m_task, m_kill, executing, input_board, target_time>>

\* launch_work_thread up to its call of submit_task.
launch_work_thread(task) ==
    /\ task.id # 0
    /\ awake_work_thread
    /\ stop_work_thread(s_work_thread')
    /\ new_task' = task
    /\ mpc' = "submit"
    /\ UNCHANGED <<m_task, m_kill, executing, input_board, target_time>>

\* chess::Board::sideToMove for the boards of the model: white moves first
\* from the initial position, and the side changes with every move.
sideToMove(board) ==
    LET first == IF board.fen = StartposFen THEN "WHITE"
                 ELSE IF read_word(read_word(ArgReader(board.fen)).r).s = <<"b">>
                      THEN "BLACK" ELSE "WHITE"
    IN  IF Len(board.moves) % 2 = 0 THEN first
        ELSE IF first = "WHITE" THEN "BLACK" ELSE "WHITE"

\* Step 1 of think: the time to spend, <<>> being INT64_MAX.
think_target_time(board, args) ==
    IF args.move_time # nullopt THEN Some(Add64(args.move_time[1], I64(-50)))
    ELSE IF args.w_time # nullopt /\ sideToMove(board) = "WHITE"
    THEN Some(Add64(Div64(args.w_time[1], 15),
                    IF args.w_inc # nullopt THEN args.w_inc[1] ELSE I64(0)))
    ELSE IF args.b_time # nullopt /\ sideToMove(board) = "BLACK"
    THEN Some(Add64(Div64(args.b_time[1], 15),
                    IF args.b_inc # nullopt THEN args.b_inc[1] ELSE I64(0)))
    ELSE nullopt

\* A run() that starts the body on a thread of its own and goes back to wait.
InvokeTaskDetached(task) ==
    /\ wpc' = "top"
    /\ executing' = executing \cup {task}
    /\ IF task.kind = "think"
       THEN /\ input_board' = Some(m_board)
            /\ target_time' = think_target_time(m_board, task.args)
       ELSE UNCHANGED <<input_board, target_time>>

\* run() calls the task: task_to_run([this]() { return should_stop(); }).
\* The call returns when the body does.  think reads m_board before its
\* first poll of must_stop.
InvokeTask(task) ==
    /\ wpc' = "body"
    /\ executing' = executing \cup {task}
    /\ IF task.kind = "think"
       THEN /\ input_board' = Some(m_board)
            /\ target_time' = think_target_time(m_board, task.args)
       ELSE UNCHANGED <<input_board, target_time>>

\* The body of `task` returns to run().
BodyReturn(task) ==
    /\ executing' = executing \ {task}
    /\ wpc' = IF wpc = "body" THEN "top" ELSE wpc
    /\ input_board' = nullopt
    /\ target_time' = nullopt

\* A run() that clears m_stop when it takes a task.
WorkerWaitClearingStop ==
    /\ alive
    /\ wpc = "top"
    /\ IF m_kill
       THEN /\ wpc' = "exited"
            /\ UNCHANGED <<m_task, m_stop, executing, input_board, target_time>>
       ELSE IF m_task # NoTask
       THEN /\ m_task' = NoTask
            /\ m_stop' = FALSE
            /\ InvokeTask(m_task)
       ELSE /\ wpc' = "parked"
            /\ UNCHANGED <<m_task, m_stop, executing, input_board, target_time>>
    /\ UNCHANGED <<mpc, mainVars, s_work_thread, m_kill, new_task>>

\* A run() that looks at m_task before it looks at m_kill.
WorkerWaitTaskFirst ==
    /\ alive
    /\ wpc = "top"
    /\ IF m_task # NoTask
       THEN /\ m_task' = NoTask
            /\ InvokeTask(m_task)
       ELSE /\ wpc' = IF m_kill THEN "exited" ELSE "parked"
            /\ UNCHANGED <<m_task, executing, input_board, target_time>>
    /\ UNCHANGED <<mpc, mainVars, s_work_thread, m_stop, m_kill, new_task>>

\* One pass of run(): the wait on m_cond_var under m_mutex, then either the
\* return (m_kill) or the call of the task taken from m_task.
WorkerWait ==
    /\ alive
    /\ wpc = "top"
    /\ IF m_kill
       THEN /\ wpc' = "exited"
            /\ UNCHANGED <<m_task, executing, input_board, target_time>>
       ELSE IF m_task # NoTask
       THEN /\ m_task' = NoTask
            /\ InvokeTask(m_task)
       ELSE /\ wpc' = "parked"
            /\ UNCHANGED <<m_task, executing, input_board, target_time>>
    /\ UNCHANGED <<mpc, mainVars, s_work_thread, m_stop, m_kill, new_task>>

\* A wait on a condition variable may return without a notification.
SpuriousWakeup ==
    /\ alive
    /\ wpc = "parked"
    /\ wpc' = "top"
    /\ UNCHANGED <<mpc, mainVars, s_work_thread, m_task, m_stop, m_kill,
                   executing, new_task, input_board, target_time>>

\* One pass of the loop of think: the poll of must_stop, then the sleep, the
\* move generation from input_board (which is m_board) and the test of the
\* elapsed time; after the loop think returns and the task reports the move.
ThinkStep ==
    /\ alive
    /\ \E task \in executing :
        /\ task.kind = "think"
        /\ IF should_stop
           THEN BodyReturn(task)
           ELSE \E timeup \in {FALSE, target_time # nullopt} :
                  IF timeup
                  THEN BodyReturn(task)
                  ELSE /\ input_board' = Some(m_board)
                       /\ UNCHANGED <<executing, wpc, target_time>>
    /\ UNCHANGED <<mpc, mainVars, s_work_thread, m_task, m_stop, m_kill, new_task>>

\* A task that polls its StopSignal and returns once it reads true.
PollerStep ==
    /\ alive
    /\ \E task \in executing :
        /\ task.kind = "poller"
        /\ IF should_stop
           THEN BodyReturn(task)
           ELSE UNCHANGED <<executing, wpc, input_board, target_time>>
    /\ UNCHANGED <<mpc, mainVars, s_work_thread, m_task, m_stop, m_kill, new_task>>

\* A task that never reads its StopSignal and never returns.
DeafStep ==
    /\ alive
    /\ \E task \in executing : task.kind = "deaf"
    /\ UNCHANGED vars

-----------------------------------------------------------------------------
(* The main thread: main_loop, the handlers and the end of the process.     *)

workVars == <<s_work_thread, m_task, m_stop, m_kill, wpc, executing, new_task,
              input_board, target_time>>

\* main_loop: the first word of the line.
Command(l) == read_word(ArgReader(l))

\* main_loop: the text the CommandContext is built on.
Args(l) == peek_remainder(skip_whitespace(Command(l).r))

\* A lookup that accepts a command beginning with a registered name.
FindHandlerByPrefix(command) ==
    LET names == {k \in DOMAIN s_cmd_handlers :
                    Len(k) <= Len(command) /\ SubSeq(command, 1, Len(k)) = k}
    IN  IF names = {} THEN "end" ELSE s_cmd_handlers[CHOOSE k \in names : TRUE]

\* s_cmd_handlers.find(command): the handler, or "end" when there is none.
FindHandler(command) ==
    IF command \in DOMAIN s_cmd_handlers THEN s_cmd_handlers[command] ELSE "end"

\* A main_loop whose first catch clause takes every std::exception.
CatchEverything(exc) ==
    IF exc = "none" THEN [mpc |-> "getline", err_calls |-> 0, cerr |-> "none"]
    ELSE [mpc |-> "getline", err_calls |-> 0, cerr |-> "Error"]

\* The catch clauses of main_loop for a handler that left with `exc`: where
\* the main thread goes on, the calls of s_err_handler and what is written
\* to std::cerr.  default_error_handler calls std::terminate.
Catch(exc) ==
    CASE exc = "none" -> [mpc |-> "getline", err_calls |-> 0, cerr |-> "none"]
      [] exc = "InputError" -> [mpc |-> "getline", err_calls |-> 0, cerr |-> "Error"]
      [] OTHER ->
            IF s_err_handler = "default"
            THEN [mpc |-> "terminated", err_calls |-> 1, cerr |-> "Fatal"]
            ELSE [mpc |-> "getline", err_calls |-> 1, cerr |-> "none"]

\* The handler has ended, normally or with an exception.
Finish(trace) ==
    LET c == Catch(trace.exc)
    IN  /\ last' = [trace EXCEPT !.err_calls = c.err_calls, !.cerr = c.cerr]
        /\ mpc' = c.mpc

\* What main_loop and the parsing handlers make of a line; none of it
\* depends on the state, so it is computed once for every line of Lines.
Parse(l) == [line |-> l, command |-> Command(l).s, args |-> Args(l),
             go |-> go_parse(Args(l)), position |-> position_parse(Args(l))]

Parsed == {Parse(l) : l \in Lines}

WorkerParsed == {Parse(l) : l \in WorkerLines}

GoParsed == {Parse(l) : l \in GoLines}

\* std::getline returns the line p.line, whose first word selects `handler`.
Dispatching(p, handler) ==
    /\ mpc = "getline"
    /\ FindHandler(p.command) = handler
    /\ line' = p.line

\* No handler is registered under the first word.
UnknownCommand(L) ==
    /\ \E p \in L :
        /\ Dispatching(p, "end")
        /\ last' = [NoTrace EXCEPT !.cerr = "Unknown command."]
        /\ mpc' = "getline"
    /\ UNCHANGED <<s_options, s_cmd_handlers, s_err_handler, m_board, workVars>>

\* uci, isready and bench print; ucinewgame calls the engine's empty handler.
RunPrinting(L) ==
    /\ \E p \in L, h \in {"uci", "isready", "bench", "ucinewgame"} :
        /\ Dispatching(p, h)
        /\ Finish([NoTrace EXCEPT !.handler = h,
                                  !.callback = IF h = "ucinewgame" THEN 1 ELSE 0,
                                  !.out = Output(h, s_options)])
    /\ UNCHANGED <<s_options, s_cmd_handlers, s_err_handler, m_board, workVars>>

RunSetoption(L) ==
    /\ \E p \in L :
        /\ Dispatching(p, "setoption")
        /\ LET res == setoption_handler(p.args, s_options)
           IN  /\ s_options' = res.options
               /\ Finish([NoTrace EXCEPT !.handler = "setoption", !.exc = res.exc,
                                         !.callback = Len(res.calls)])
    /\ UNCHANGED <<s_cmd_handlers, s_err_handler, m_board, workVars>>

\* The position handler, then the engine's handler (engine.cpp:30-36), which
\* builds m_board from args.fen and makes the moves on it.
RunPosition(L) ==
    /\ \E p \in L :
        /\ Dispatching(p, "position")
        /\ LET res == p.position
           IN  IF res.exc # "none"
               THEN /\ Finish([NoTrace EXCEPT !.handler = "position", !.exc = res.exc])
                    /\ UNCHANGED m_board
               ELSE /\ \E fen \in {res.fen} \cup (IF res.temporary THEN {Garbage} ELSE {}) :
                          m_board' = Board(fen, res.moves)
                    /\ Finish([NoTrace EXCEPT !.handler = "position", !.callback = 1])
    /\ UNCHANGED <<s_options, s_cmd_handlers, s_err_handler, workVars>>

\* The go handler, then the engine's handler (engine.cpp:39-44), which
\* launches think on the work thread.
RunGo(L) ==
    /\ \E p \in L :
        /\ Dispatching(p, "go")
        /\ LET res == p.go
           IN  CASE res.exc = "diverges" ->
                        /\ mpc' = "go_loop"
                        /\ last' = [NoTrace EXCEPT !.handler = "go"]
                        /\ UNCHANGED workVars
                 [] res.exc \notin {"none", "diverges"} ->
                        /\ Finish([NoTrace EXCEPT !.handler = "go", !.exc = res.exc])
                        /\ UNCHANGED workVars
                 [] OTHER ->
                        /\ last' = [NoTrace EXCEPT !.handler = "go", !.callback = 1]
                        /\ launch_work_thread(Task(FreeId, "think", res.go_args))
    /\ UNCHANGED <<s_options, s_cmd_handlers, s_err_handler, m_board>>

\* The loop of the go handler that tests the word "infinite" for ever.
GoLoop ==
    /\ mpc = "go_loop"
    /\ UNCHANGED vars

\* The stop handler calls the engine's handler (engine.cpp:25-27), which
\* calls stop_work_thread.
RunStop(L) ==
    /\ \E p \in L :
        /\ Dispatching(p, "stop")
        /\ last' = [NoTrace EXCEPT !.handler = "stop", !.callback = 1]
        /\ mpc' = "stop"
    /\ UNCHANGED <<s_options, s_cmd_handlers, s_err_handler, m_board, workVars>>

\* stop_work_thread, called by the stop handler; then the handler returns.
StopWorkThread ==
    /\ mpc = "stop"
    /\ stop_work_thread(s_work_thread)
    /\ mpc' = "getline"
    /\ UNCHANGED <<mainVars, s_work_thread, m_task, m_kill, wpc, executing,
                   new_task, input_board, target_time>>

\* A submit_task that stores the task and leaves m_stop as it is.
SubmitTaskKeepingStop ==
    /\ mpc = "submit"
    /\ m_task' = new_task
    /\ new_task' = NoTask
    /\ mpc' = "notify"
    /\ UNCHANGED <<mainVars, s_work_thread, m_stop, m_kill, wpc, executing,
                   input_board, target_time>>

\* submit_task: the block that holds m_mutex.
SubmitTask ==
    /\ mpc = "submit"
    /\ m_task' = new_task
    /\ m_stop' = FALSE
    /\ new_task' = NoTask
    /\ mpc' = "notify"
    /\ UNCHANGED <<mainVars, s_work_thread, m_kill, wpc, executing,
                   input_board, target_time>>

\* submit_task: m_cond_var.notify_one(); launch_work_thread then returns to
\* its caller and the main thread reads the next line.
SubmitNotify ==
    /\ mpc = "notify"
    /\ notify_one
    /\ mpc' = "getline"
    /\ UNCHANGED <<mainVars, s_work_thread, m_task, m_stop, m_kill, executing,
                   new_task, input_board, target_time>>

\* A caller of the library launches a task of its own from the main thread.
CallLaunch ==
    /\ mpc = "getline"
    /\ \E kind \in CallerTaskKinds : launch_work_thread(Task(FreeId, kind, GoArgs))
    /\ line' = NoLine
    /\ last' = NoTrace
    /\ UNCHANGED <<s_options, s_cmd_handlers, s_err_handler, m_board>>

\* set_error_handler
SetErrorHandler ==
    /\ mpc = "getline"
    /\ \E h \in ErrorHandlers : s_err_handler' = h
    /\ line' = NoLine
    /\ last' = NoTrace
    /\ UNCHANGED <<mpc, s_options, s_cmd_handlers, m_board, workVars>>

\* The quit handler calls std::exit(0).
RunQuit(L) ==
    /\ \E p \in L :
        /\ Dispatching(p, "quit")
        /\ last' = [NoTrace EXCEPT !.handler = "quit"]
        /\ mpc' = "exit"
    /\ UNCHANGED <<s_options, s_cmd_handlers, s_err_handler, m_board, workVars>>

\* std::getline meets the end of the input: main_loop and main return.
EndOfInput ==
    /\ mpc = "getline"
    /\ line' = NoLine
    /\ last' = NoTrace
    /\ mpc' = "exit"
    /\ UNCHANGED <<s_options, s_cmd_handlers, s_err_handler, m_board, workVars>>

\* The process ends: s_work_thread is destroyed.  Without a WorkThread there
\* is nothing to do; otherwise ~WorkThread starts with stop_current_task.
Exit ==
    /\ mpc = "exit"
    /\ IF ~s_work_thread
       THEN mpc' = "exited" /\ UNCHANGED m_stop
       ELSE mpc' = "dtor_kill" /\ stop_current_task
    /\ UNCHANGED <<mainVars, s_work_thread, m_task, m_kill, wpc, executing,
                   new_task, input_board, target_time>>

\* ~WorkThread: m_kill = true under m_mutex.
DtorKill ==
    /\ mpc = "dtor_kill"
    /\ m_kill' = TRUE
    /\ mpc' = "dtor_notify"
    /\ UNCHANGED <<mainVars, s_work_thread, m_task, m_stop, wpc, executing,
                   new_task, input_board, target_time>>

\* ~WorkThread: m_cond_var.notify_one().
DtorNotify ==
    /\ mpc = "dtor_notify"
    /\ notify_one
    /\ mpc' = "dtor_join"
    /\ UNCHANGED <<mainVars, s_work_thread, m_task, m_stop, m_kill, executing,
                   new_task, input_board, target_time>>

\* A ~WorkThread that detaches m_thread instead of joining it.
DtorDetach ==
    /\ mpc = "dtor_join"
    /\ mpc' = "exited"
    /\ UNCHANGED <<mainVars, workVars>>

\* ~WorkThread: m_thread.join() returns once run() has returned; the
\* destructor is then done and the process ends.
DtorJoin ==
    /\ mpc = "dtor_join"
    /\ wpc = "exited"
    /\ mpc' = "exited"
    /\ UNCHANGED <<mainVars, workVars>>

\* The steps of the work thread and of the end of the process.
Background ==
    \/ StopWorkThread \/ SubmitTask \/ SubmitNotify
    \/ EndOfInput \/ Exit \/ DtorKill \/ DtorNotify \/ DtorJoin
    \/ WorkerWait \/ SpuriousWakeup \/ ThinkStep

\* The work thread under a client that searches, stops and quits, and under
\* a caller that launches tasks of its own.
WorkerNext ==
    \/ RunPrinting(WorkerParsed) \/ RunPosition(WorkerParsed) \/ RunGo(WorkerParsed)
    \/ RunStop(WorkerParsed) \/ RunQuit(WorkerParsed) \/ CallLaunch
    \/ PollerStep \/ DeafStep
    \/ Background

WorkerSpec == Init /\ [][WorkerNext]_vars

\* The engine reading the lines of Lines, with either error handler.
Next ==
    \/ UnknownCommand(Parsed) \/ RunPrinting(Parsed) \/ RunSetoption(Parsed)
    \/ RunPosition(Parsed) \/ RunGo(Parsed) \/ GoLoop \/ RunStop(Parsed)
    \/ RunQuit(Parsed) \/ SetErrorHandler
    \/ Background

Spec == Init /\ [][Next]_vars

\* The options a caller registers besides those of Engine::initialize.
OptionRegistrations == {
    [name |-> Lit.Hash, option |-> spin_option(I64(32), I64(1), I64(1024 * 1024))],
    [name |-> <<"P", "o", "n", "d", "e", "r">>, option |-> check_option(FALSE)],
    [name |-> <<"B", "o", "o", "k">>, option |-> string_option(<<"a">>)],
    [name |-> <<"C", "l", "e", "a", "r">>, option |-> button_option] }

\* The same, and a registration of the name Book with another type.
AllRegistrations ==
    OptionRegistrations \cup
    {[name |-> <<"B", "o", "o", "k">>,
      option |-> spin_option(I64(0), I64(-1), I64(1))]}

\* The values a caller passes to set_option.
OptionValues ==
    <<monostate, OptionValue(Check, TRUE), OptionValue(Check, FALSE),
      OptionValue(String, <<>>), OptionValue(String, <<"a", " ", "b">>),
      OptionValue(Spin, <<0, 0, 1, 0>>), OptionValue(Spin, I64(-1)),
      OptionValue(Spin, I64(0)), OptionValue(Spin, I64(1)),
      OptionValue(Spin, I64(32)), OptionValue(Spin, I64(1024 * 1024)),
      OptionValue(Spin, I64(1024 * 1024 + 1))>>

\* A caller registers an option: s_options[name] = Option {...}.
RegisterOption(R) ==
    /\ \E reg \in R :
        /\ s_options' = [n \in DOMAIN s_options \cup {reg.name} |->
                            IF n = reg.name THEN reg.option ELSE s_options[n]]
        /\ last' = [handler |-> "register", name |-> reg.name]
    /\ UNCHANGED <<mpc, line, s_cmd_handlers, s_err_handler, m_board, workVars>>

\* A caller calls set_option(name, value).
SetOption(R) ==
    /\ \E reg \in R, i \in DOMAIN OptionValues :
        LET value == OptionValues[i]
            res == set_option(s_options, reg.name, value)
        IN  /\ s_options' = res.options
            /\ last' = [handler |-> "set_option", name |-> reg.name, value |-> value,
                        exc |-> res.exc, calls |-> res.calls]
    /\ UNCHANGED <<mpc, line, s_cmd_handlers, s_err_handler, m_board, workVars>>

\* A caller calls get_all_options().
GetAllOptions ==
    /\ last' = [handler |-> "get_all_options", list |-> get_all_options(s_options)]
    /\ UNCHANGED <<mpc, line, s_options, s_cmd_handlers, s_err_handler, m_board,
                   workVars>>

\* The option table under the calls of its interface.
OptionNext ==
    RegisterOption(AllRegistrations) \/ SetOption(AllRegistrations) \/ GetAllOptions

OptionSpec == Init /\ [][OptionNext]_vars

\* The texts a caller builds an ArgReader on.
ReaderTexts == {
    <<>>,
    <<" ", " ">>,
    <<" ", " ", "4", "2", " ", " ", "r", "e", "s", "t">>,
    <<"a", "b", "c">>,
    <<"-", "7", "\t", "8">>,
    <<"1", "2", "a", "b">>,
    <<"x", " ">> \o TwentyDigits,
    <<"9", "2", "2", "3", "3", "7", "2", "0", "3", "6", "8", "5", "4", "7", "7",
      "5", "8", "0", "7", " ">>,
    <<"+", "5", " ", "x">>,
    <<"0", "0", "1", "2">>,
    <<"-", " ", "1">> }

\* How far a caller moves the cursor before the calls observed.
MaxCursor == 6

\* A caller constructs an ArgReader on a text and moves its cursor.
NewReader ==
    /\ \E str \in ReaderTexts, pos \in 0..MaxCursor :
        /\ pos <= Len(str)
        /\ line' = str
        /\ last' = [handler |-> "ArgReader", pos_before |-> pos, pos |-> pos,
                    exc |-> "none", v |-> nullopt]
    /\ UNCHANGED <<mpc, s_options, s_cmd_handlers, s_err_handler, m_board, workVars>>

\* A caller calls try_read_int() on its reader.
TryReadInt ==
    /\ last.handler \in {"ArgReader", "try_read_int"}
    /\ last.exc = "none"
    /\ LET n == try_read_int([str |-> line, pos |-> last.pos])
       IN  last' = [handler |-> "try_read_int", pos_before |-> last.pos,
                    pos |-> n.r.pos, exc |-> n.exc, v |-> n.v]
    /\ UNCHANGED <<mpc, line, s_options, s_cmd_handlers, s_err_handler, m_board,
                   workVars>>

\* An ArgReader under the calls of a caller.
ReaderNext == NewReader \/ TryReadInt

ReaderSpec == Init /\ [][ReaderNext]_vars

\* The number of words after `fen`, and of moves after `moves`.
MaxWords == 2

\* position lines: startpos or fen and its words, then nothing, `moves`, or
\* `moves` and the moves.
PositionCases ==
    LET lists(S) == UNION {[1..n -> S] : n \in 0..MaxWords}
        tails == {[words |-> <<>>, moves |-> <<>>]}
                    \cup {[words |-> <<Lit.moves>> \o ms, moves |-> ms] :
                            ms \in lists({<<"e", "2", "e", "4">>, <<"e", "7", "e", "5">>})}
    IN  {[line |-> Join(<<Lit.position, Lit.startpos>> \o t.words),
          first |-> Lit.startpos, fen |-> StartposFen, moves |-> t.moves] : t \in tails}
        \cup
        {[line |-> Join(<<Lit.position, Lit.fen>> \o ws \o t.words),
          first |-> Lit.fen, fen |-> Join(ws), moves |-> t.moves] :
            ws \in lists({<<"8", "/", "8">>, <<"w">>}), t \in tails}

\* position lines without startpos or fen, or with a word other than
\* `moves` after the position.
BadPositionLines == {
    Lit.position,
    Lit.position \o <<" ", " ">>,
    Join(<<Lit.position, <<"k", "7">>>>),
    Join(<<Lit.position, Lit.startpos, <<"e", "2", "e", "4">>>>),
    Join(<<Lit.position, Lit.startpos, <<"m", "o", "v", "e">>, <<"e", "2", "e", "4">>>>) }

PositionParsed == {Parse(l) : l \in BadPositionLines \cup {c.line : c \in PositionCases}}

\* The position handler alone.
PositionNext == RunPosition(PositionParsed)

PositionSpec == Init /\ [][PositionNext]_vars

\* The go handler alone, on every line of GoLines.
GoNext == RunGo(GoParsed)

GoSpec == Init /\ [][GoNext]_vars

\* Every thread that can take a step eventually takes one: the work thread
\* in run() and in a task body that polls, the main thread in submit_task
\* and in ~WorkThread.
FairWorkerSpec ==
    /\ WorkerSpec
    /\ WF_vars(WorkerWait) /\ WF_vars(ThinkStep) /\ WF_vars(PollerStep)
    /\ WF_vars(SubmitTask) /\ WF_vars(SubmitNotify)
    /\ WF_vars(Exit) /\ WF_vars(DtorKill) /\ WF_vars(DtorNotify) /\ WF_vars(DtorJoin)

-----------------------------------------------------------------------------
(* The work thread: C1 - C7.                                                *)

Polls(task) == task.kind \in {"think", "poller"}

\* C1: no two task bodies are ever executing at the same time: a task
\* launched while another task's body is executing begins only once that
\* body has returned, so no state holds two executing bodies.
C1_BodiesNeverOverlap == \A a, b \in executing : a = b

\* C1: a task sits in m_task, launched while another task's body executes.
C1_Witness ==
    \E a \in executing : m_task # NoTask /\ m_task.id # a.id /\ mpc = "getline"

\* C2: a launch made while a polling task A executes cancels A: once the
\* launch has returned with A still executing, A's next poll of its
\* StopSignal reads true (nothing but the main thread, which now waits for
\* input, ever raises the flag), so A returns and the new task begins.
C2_LaunchCancelsRunning ==
    (/\ mpc = "getline"
     /\ m_task # NoTask
     /\ \E a \in executing : Polls(a))
        => should_stop

\* C3: work_thread_running() is true exactly when a task is in m_task or a
\* task body is executing.
C3_RunningIffInstalledOrExecuting ==
    work_thread_running <=> (s_work_thread /\ (m_task # NoTask \/ executing # {}))

\* C4: stop_work_thread never blocks: whatever the work thread is doing the
\* call can take its step, and the step returns having set m_stop when the
\* WorkThread exists and having changed nothing when it does not.
C4_StopNeverBlocks ==
    /\ [](mpc = "stop" => ENABLED StopWorkThread)
    /\ [][(mpc = "stop" /\ mpc' # "stop") =>
            /\ mpc' = "getline"
            /\ m_stop' = IF s_work_thread THEN TRUE ELSE m_stop
            /\ UNCHANGED <<s_work_thread, m_task, m_kill, wpc, executing>>]_vars

\* C4: stop has returned while a body that never reads the flag executes.
C4_Witness ==
    /\ mpc = "getline" /\ last.handler = "stop" /\ m_stop
    /\ \E t \in executing : t.kind = "deaf"

\* C5: when stop_work_thread returns, no task body is executing any more.
C5_StopWaitsForTask ==
    [][(mpc = "stop" /\ mpc' = "getline") => executing' = {}]_vars

\* C6: ~WorkThread raises m_stop and m_kill and returns only after run() has
\* returned, so never while a body executes (never at all under a body that
\* ignores the flag, which never returns) and no body begins afterwards; and
\* it does return when no body that ignores the flag is executing.
C6_ShutdownJoins ==
    /\ []((mpc = "exited" /\ s_work_thread) =>
            (m_stop /\ m_kill /\ wpc = "exited" /\ executing = {}))
    /\ [][(\E t \in executing : t.kind = "deaf") =>
            (executing' = executing /\ mpc' # "exited")]_vars
    /\ [][mpc = "exited" => executing' = executing]_vars
    /\ ((mpc \in {"dtor_notify", "dtor_join"} /\ \A t \in executing : Polls(t))
            ~> mpc = "exited")

\* C6: the destructor has joined the work thread.
C6_Witness == mpc = "exited" /\ s_work_thread /\ wpc = "exited" /\ m_task # NoTask

\* C7: m_task and m_stop are all the two threads share: while the body of a
\* search executes, no handler writes the board the search reads.
C7_NoSharedBoard ==
    [][(\E t \in executing : t.kind = "think") => m_board' = m_board]_vars

-----------------------------------------------------------------------------
(* main_loop and its two tiers of faults: C8 - C10.                         *)

\* The faults a malformed argument text raises in setoption, go and position:
\* InputError from the readers and the registry, and what std::stoll throws.
InputFaults == {"InputError", "invalid_argument", "out_of_range"}

\* C8: a fault raised by malformed arguments of setoption, go or position is
\* caught for that line alone: it is reported on std::cerr, s_err_handler
\* is not called, the process is not terminated and main_loop reads on.
C8_InputFaultsCaughtPerLine ==
    (last.handler \in {"setoption", "go", "position"} /\ last.exc \in InputFaults)
        => (last.cerr = "Error" /\ last.err_calls = 0 /\ mpc = "getline")

\* C9: reading a line whose first word is no registered command (an empty
\* or blank line too) calls no handler and no error handler, changes neither
\* the registries nor the work thread, and main_loop reads the next line.
C9_UnknownCommandIgnored ==
    [][(/\ mpc = "getline"
        /\ line' # NoLine
        /\ <<line, last>>' # <<line, last>>
        /\ Command(line').s \notin DOMAIN s_cmd_handlers)
        => (/\ last'.handler = "none"
            /\ last'.callback = 0
            /\ last'.err_calls = 0
            /\ mpc' = "getline"
            /\ UNCHANGED <<s_options, s_cmd_handlers, s_err_handler, m_board,
                           workVars>>)]_vars

\* C9: a blank line is the last line read and a task body is executing.
C9_Witness ==
    /\ line = <<" ", "\t">> /\ last.cerr = "Unknown command."
    /\ mpc = "getline" /\ executing # {}

\* C10: a fault of a handler that is not an InputError reaches the current
\* s_err_handler exactly once; the default one terminates the process, and
\* after an installed one that returns main_loop reads the next line.
C10_OtherFaultsReachErrorHandler ==
    (last.exc \notin {"none", "InputError", "diverges"})
        => /\ last.err_calls = 1
           /\ s_err_handler = "default" => mpc = "terminated"
           /\ s_err_handler = "returning" => mpc = "getline"

\* C10: std::stoll threw under an installed handler and main_loop reads on.
C10_Witness ==
    /\ last.exc = "invalid_argument" /\ last.err_calls = 1
    /\ s_err_handler = "returning" /\ mpc = "getline"

-----------------------------------------------------------------------------
(* The go handler: C11 - C13.                                               *)

\* C11: the go handler returns on the lines "go" and "go infinite": it has
\* then called the caller's handler exactly once, with a GoArgs whose
\* infinite is true and whose limits are all absent.
C11_GoInfiniteReturns ==
    (last.handler = "go" /\ line \in {Lit.go, Join(<<Lit.go, Lit.infinite>>)})
        => /\ mpc # "go_loop"
           /\ last.callback = 1
           /\ mpc = "submit" => new_task.args = GoArgs

\* The value the go line with the limits `pairs` gives the field of `key`:
\* the numeral of the key's last occurrence, absent without one.
GoExpected(pairs, key) ==
    LET at == {i \in 1..Len(pairs) : pairs[i].key = key}
    IN  IF at = {} THEN nullopt
        ELSE Some(pairs[CHOOSE i \in at : \A j \in at : j <= i].num.value)

\* C12: on a go line of limit keywords each followed by an integer, the
\* GoArgs the caller's handler receives holds for every keyword exactly the
\* integer after its last occurrence (depth included, the value unchanged),
\* no other limit, and infinite false exactly when a keyword appeared.
C12_GoLimitsExact ==
    \A c \in GoCases :
        (line = c.line /\ last.handler = "go")
            => /\ last.callback = 1
               /\ LET a == new_task.args
                  IN  /\ a.w_time = GoExpected(c.pairs, Lit.wtime)
                      /\ a.w_inc = GoExpected(c.pairs, Lit.winc)
                      /\ a.b_time = GoExpected(c.pairs, Lit.btime)
                      /\ a.b_inc = GoExpected(c.pairs, Lit.binc)
                      /\ a.nodes = GoExpected(c.pairs, Lit.nodes)
                      /\ a.move_time = GoExpected(c.pairs, Lit.movetime)
                      /\ [i \in DOMAIN a.depth |-> I64(a.depth[i])]
                            = GoExpected(c.pairs, Lit.depth)
                      /\ a.infinite = (c.pairs = <<>>)

\* C13: a go line with an unknown word, a limit keyword without an integer
\* after it, or infinite after a limit ends in an InputError: the caller's
\* go handler is not called, no task is launched, and m_task, m_stop and the
\* rest of the work thread's state stay as they were.
C13_BadGoLaunchesNothing ==
    [][(/\ mpc = "getline"
        /\ line' \in BadGoLines
        /\ <<line, last>>' # <<line, last>>)
        => (/\ last'.handler = "go"
            /\ last'.exc = "InputError"
            /\ last'.callback = 0
            /\ UNCHANGED workVars)]_vars

\* C13: such a line was handled while a launched task waited in m_task.
C13_Witness ==
    /\ line \in BadGoLines /\ last.exc = "InputError"
    /\ m_task # NoTask /\ mpc = "getline"

-----------------------------------------------------------------------------
(* The option table: C14 - C17.                                             *)

\* The call of set_option this step makes is for a registered option of
\* type `index`.
SetsOptionOfType(index) ==
    /\ last'.handler = "set_option"
    /\ last'.name \in DOMAIN s_options
    /\ type(s_options[last'.name]) = index

\* C14: set_option on a spin option with an integer v returns normally
\* exactly when min <= v <= max; otherwise it throws InputError, the option's
\* current value stays and the change handler is not called.
C14_SpinWithinBounds ==
    [][(SetsOptionOfType(Spin) /\ last'.value.index = Spin) =>
        LET opt == s_options[last'.name]
            v   == last'.value.v
            within == ~Less64(v, opt.min) /\ ~Less64(opt.max, v)
        IN  /\ (last'.exc = "none") <=> within
            /\ ~within => /\ last'.exc = "InputError"
                          /\ s_options' = s_options
                          /\ last'.calls = <<>>]_vars

\* C14: Hash was set to its maximum.
C14_Witness ==
    /\ last.handler = "set_option" /\ last.name = Lit.Hash /\ last.exc = "none"
    /\ last.value.index = Spin /\ last.value.v = I64(1048576)
    /\ s_options[Lit.Hash].max = I64(1048576)
    /\ s_options[Lit.Hash].current = last.value

\* C15: set_option with a value whose alternative is not the option's type
\* throws the type mismatch (std::invalid_argument), changes no option and
\* does not call the change handler.
C15_TypeMismatchRejected ==
    [][(/\ last'.handler = "set_option"
        /\ last'.name \in DOMAIN s_options
        /\ type(s_options[last'.name]) # last'.value.index)
        => /\ last'.exc = "invalid_argument"
           /\ s_options' = s_options
           /\ last'.calls = <<>>]_vars

\* C15: a string was set on the check option Ponder.
C15_Witness ==
    /\ last.handler = "set_option" /\ last.name = <<"P", "o", "n", "d", "e", "r">>
    /\ last.name \in DOMAIN s_options
    /\ last.value.index = String /\ last.exc = "invalid_argument"

\* C16: set_option of a spin, string or check option with a value of its
\* type (within the bounds of a spin) returns normally; then get_option
\* returns that value and the change handler was called once, with it.
C16_SetThenGet ==
    (/\ last.handler = "set_option"
     /\ last.name \in DOMAIN s_options
     /\ last.value.index \in {Spin, String, Check}
     /\ type(s_options[last.name]) = last.value.index
     /\ last.value.index = Spin =>
            /\ ~Less64(last.value.v, s_options[last.name].min)
            /\ ~Less64(s_options[last.name].max, last.value.v))
        => /\ last.exc = "none"
           /\ get_option(s_options, last.name, last.value.index).exc = "none"
           /\ get_option(s_options, last.name, last.value.index).v = last.value.v
           /\ last.calls = <<last.value>>

\* C17: get_all_options returns one OptionInfo for every registered name, a
\* second call returns the same sequence, and get_option_info of every name
\* listed returns the OptionInfo listed.
C17_ListMatchesDescribe ==
    last.handler = "get_all_options" =>
        /\ Len(last.list) = Cardinality(DOMAIN s_options)
        /\ {last.list[i].name : i \in DOMAIN last.list} = DOMAIN s_options
        /\ get_all_options(s_options) = last.list
        /\ \A i \in DOMAIN last.list :
              get_option_info(s_options, last.list[i].name) = last.list[i]

\* C17: the options were listed after a set had changed one of five.
C17_Witness ==
    /\ last.handler = "get_all_options" /\ Len(last.list) = 5
    /\ \E i \in DOMAIN last.list :
          last.list[i].current_value # last.list[i].default_value

-----------------------------------------------------------------------------
(* The argument reader and the position handler: C18 - C20.                 *)

\* C18: try_read_int never throws: it returns a value and leaves the cursor
\* right after the next word, or returns std::nullopt and leaves the cursor
\* where it was before the call.
C18_TryReadIntNeverThrows ==
    last.handler = "try_read_int" =>
        /\ last.exc = "none"
        /\ last.v = nullopt => last.pos = last.pos_before
        /\ last.v # nullopt =>
              last.pos = read_word([str |-> line, pos |-> last.pos_before]).r.pos

\* C19: on "position startpos", alone or followed by "moves" and moves, the
\* caller's handler is called once, with the FEN of the initial position
\* and the moves in the order of the line; without a first word, with one
\* that is neither startpos nor fen, or with a word other than "moves" after
\* the position, the handler throws InputError and calls nothing.
C19_StartposAndMoves ==
    last.handler = "position" =>
        /\ \A c \in PositionCases :
              (c.first = Lit.startpos /\ line = c.line) =>
                  /\ last.exc = "none"
                  /\ last.callback = 1
                  /\ m_board = Board(StartposFen, c.moves)
        /\ line \in BadPositionLines =>
              (last.exc = "InputError" /\ last.callback = 0)

\* C19: "position startpos moves e2e4 e7e5" gave its two moves in order.
C19_Witness ==
    /\ last.handler = "position" /\ last.callback = 1
    /\ line = Join(<<Lit.position, Lit.startpos, Lit.moves,
                     <<"e", "2", "e", "4">>, <<"e", "7", "e", "5">>>>)
    /\ m_board.moves = <<<<"e", "2", "e", "4">>, <<"e", "7", "e", "5">>>>

\* C20: on "position fen w1 ... wk", alone or followed by "moves" and moves,
\* the caller's handler receives as the FEN the words before "moves" joined
\* by single spaces, with no space before or after, and the moves after
\* "moves".
C20_FenWordsJoined ==
    \A c \in PositionCases :
        (c.first = Lit.fen /\ line = c.line /\ last.handler = "position") =>
            /\ last.callback = 1
            /\ m_board = Board(c.fen, c.moves)

-----------------------------------------------------------------------------
(* The setoption command: C21, C29.                                         *)

\* setoption lines for the string option Book, and the text each carries
\* after the value keyword.
SetoptionCases ==
    {[line |-> Join(<<Lit.setoption, Lit.name, <<"B", "o", "o", "k">>, Lit.value, t>>),
      name |-> <<"B", "o", "o", "k">>, text |-> t] :
        t \in {<<"b">>, <<"a", " ", "b">>}}

\* The setoption lines the client sends.
SetoptionLines ==
    {c.line : c \in SetoptionCases} \cup {
    Join(<<Lit.setoption, Lit.name, Lit.Hash, Lit.value, <<"6", "4">>>>),
    Join(<<Lit.setoption, Lit.name, Lit.Hash, Lit.value, <<"0">>>>),
    Join(<<Lit.setoption, Lit.name, Lit.Hash, Lit.value,
           <<"1", "0", "4", "8", "5", "7", "7">>>>),
    Join(<<Lit.setoption, Lit.name, <<"P", "o", "n", "d", "e", "r">>, Lit.value,
           Lit.true>>),
    Join(<<Lit.setoption, Lit.name, <<"C", "l", "e", "a", "r">>>>) }

SetoptionParsed == {Parse(l) : l \in SetoptionLines}

\* The calls of the option interface a caller makes between two lines.
OptionCalls ==
    /\ mpc = "getline"
    /\ RegisterOption(OptionRegistrations) \/ SetOption(OptionRegistrations)

\* The option table under setoption lines and the calls of its interface.
SetoptionNext == OptionCalls \/ RunSetoption(SetoptionParsed)

SetoptionSpec == Init /\ [][SetoptionNext]_vars

\* C21: after "setoption name X value <text>" for a string option X the
\* current value of X is the whole text that follows the value keyword,
\* every word of it.
C21_SetoptionWholeText ==
    \A c \in SetoptionCases :
        (/\ line = c.line /\ last.handler = "setoption"
         /\ c.name \in DOMAIN s_options /\ type(s_options[c.name]) = String)
            => /\ last.exc = "none"
               /\ get_option(s_options, c.name, String).v = c.text

\* C29: the current value of every spin option lies between its min and
\* its max, whatever set_option calls and setoption lines came before.
C29_SpinCurrentWithinBounds ==
    \A n \in DOMAIN s_options :
        type(s_options[n]) = Spin =>
            /\ ~Less64(s_options[n].current.v, s_options[n].min)
            /\ ~Less64(s_options[n].max, s_options[n].current.v)

\* C29: a setoption line and a set_option call below the minimum were both
\* refused after Hash had been changed.
C29_Witness ==
    /\ line = Join(<<Lit.setoption, Lit.name, Lit.Hash, Lit.value, <<"0">>>>)
    /\ last.handler = "set_option" /\ last.name = Lit.Hash
    /\ last.value.index = Spin /\ last.exc = "InputError"
    /\ s_options[Lit.Hash].current # s_options[Lit.Hash].default_value



-----------------------------------------------------------------------------
(* The uci command: C22.                                                    *)

\* The uci handler after registrations and setoption lines.
UciNext ==
    \/ mpc = "getline" /\ RegisterOption(OptionRegistrations)
    \/ RunSetoption(SetoptionParsed)
    \/ RunPrinting({Parse(Lit.uci), Parse(Lit.isready)})

UciSpec == Init /\ [][UciNext]_vars

\* The option line with the kind name of each of the four kinds.
ExpectedOptionLine(name) ==
    LET opt == s_options[name]
        kind == CASE type(opt) = Button -> <<"b", "u", "t", "t", "o", "n">>
                  [] type(opt) = Spin -> <<"s", "p", "i", "n">>
                  [] type(opt) = String -> <<"s", "t", "r", "i", "n", "g">>
                  [] type(opt) = Check -> <<"c", "h", "e", "c", "k">>
    IN  <<"o", "p", "t", "i", "o", "n", " ">> \o name \o <<" ", "t", "y", "p", "e", " ">> \o kind \o
        CASE type(opt) = Spin ->
                <<" ", "d", "e", "f", "a", "u", "l", "t", " ">> \o PutInt64(opt.default_value.v) \o
                <<" ", "m", "i", "n", " ">> \o PutInt64(opt.min) \o <<" ", "m", "a", "x", " ">> \o PutInt64(opt.max)
          [] type(opt) = String -> <<" ", "d", "e", "f", "a", "u", "l", "t", " ">> \o opt.default_value.v
          [] type(opt) = Check ->
                <<" ", "d", "e", "f", "a", "u", "l", "t", " ">> \o (IF opt.default_value.v THEN <<"t", "r", "u", "e">> ELSE <<"f", "a", "l", "s", "e">>)
          [] type(opt) = Button -> <<>>

\* C22: the uci handler writes the identification line, the author line,
\* one option line for every registered option (kind name button, spin,
\* string or check; default, and min and max of a spin, for the kinds that
\* carry a value) and uciok as the last line.
C22_UciOutput ==
    last.handler = "uci" =>
        LET n == Cardinality(DOMAIN s_options)
        IN  /\ Len(last.out) = n + 3
            /\ last.out[1] = <<"i", "d", " ", "n", "a", "m", "e", " ", "M", "y", " ", "E", "n", "g", "i", "n", "e", " ", "N", "a", "m", "e">>
            /\ last.out[2] = <<"i", "d", " ", "a", "u", "t", "h", "o", "r", " ", "M", "y", " ", "N", "a", "m", "e">>
            /\ {last.out[i] : i \in 3..(n + 2)}
                  = {ExpectedOptionLine(name) : name \in DOMAIN s_options}
            /\ last.out[n + 3] = <<"u", "c", "i", "o", "k">>

-----------------------------------------------------------------------------
(* info::Score: C23.                                                        *)

\* std::abs for an int
abs(n) == IF n < 0 THEN -n ELSE n

\* a / b of C++ for b > 0: the quotient is truncated towards zero.
TruncDiv(a, b) == IF a < 0 THEN -((-a) \div b) ELSE a \div b

\* info::Score::Score(int) and Score(int, int, int)
Score1(score) ==
    [score |-> score, allow_mate_scores |-> FALSE, mate_score |-> 0,
     mate_threshold |-> 0]

Score3(score, mate, max_mate_plies) ==
    [score |-> score, allow_mate_scores |-> TRUE, mate_score |-> abs(mate),
     mate_threshold |-> mate - max_mate_plies]

\* operator<<(std::ostream&, const Score&)
PutScore(s) ==
    IF ~s.allow_mate_scores \/ abs(s.score) < s.mate_threshold
    THEN <<"s", "c", "o", "r", "e", " ", "c", "p", " ">> \o PutInt64(I64(s.score))
    ELSE LET plies == s.mate_score - abs(s.score)
             moves == TruncDiv(plies + 1, 2)
         IN  <<"s", "c", "o", "r", "e", " ", "m", "a", "t", "e", " ">> \o PutInt64(I64(IF s.score > 0 THEN moves ELSE -moves))

\* The scores, mate constants and ply limits a caller passes.
MaxScore == 4

\* The arguments of the constructors: the range, and those of uci.h.
ScoreArgs ==
    {<<s>> : s \in (-MaxScore..MaxScore) \cup {250}}
    \cup ((-MaxScore..MaxScore) \X (-MaxScore..MaxScore) \X (-MaxScore..MaxScore))
    \cup {<<990, 1000, 10>>, <<-995, 1000, 10>>, <<1005, 1000, 10>>}

\* A caller writes a Score to a stream.
WriteScore ==
    /\ \E a \in ScoreArgs :
        LET s == IF Len(a) = 1 THEN Score1(a[1]) ELSE Score3(a[1], a[2], a[3])
        IN  last' = [handler |-> "Score", args |-> a, out |-> PutScore(s)]
    /\ UNCHANGED <<mpc, line, s_options, s_cmd_handlers, s_err_handler, m_board,
                   workVars>>

ScoreSpec == Init /\ [][WriteScore]_vars

\* C23: a Score without mate encoding, or with |score| below
\* mateConstant - maxPlies, is written as "score cp <score>"; any other is
\* written as "score mate <m>" where |m| = (plies + 1) / 2 for
\* plies = mateConstant - |score| and m has the sign of score.
C23_ScoreFragment ==
    last.handler = "Score" =>
        LET a == last.args
            score == a[1]
        IN  IF Len(a) = 1 \/ abs(score) < a[2] - a[3]
            THEN last.out = <<"s", "c", "o", "r", "e", " ", "c", "p", " ">> \o PutInt64(I64(score))
            ELSE LET plies == a[2] - abs(score)
                     mag == TruncDiv(plies + 1, 2)
                 IN  \E m \in {mag, -mag} :
                        /\ abs(m) = mag
                        /\ m > 0 => score > 0
                        /\ m < 0 => score < 0
                        /\ last.out = <<"s", "c", "o", "r", "e", " ", "m", "a", "t", "e", " ">> \o PutInt64(I64(m))

-----------------------------------------------------------------------------
(* quit and the work thread: C24, C26, C27, C30.                            *)

\* C24: once the quit handler has run the process ends without waiting for
\* the work thread: the main thread is never held in m_thread.join() by a
\* task body that is still being executed.
C24_QuitDoesNotWait ==
    last.handler = "quit" => ~(mpc = "dtor_join" /\ executing # {})

-----------------------------------------------------------------------------
(* report_info and the output of the main thread: C25.                      *)

\* The passes of the loop of think that report.
MaxDepth == 2

\* report_info(Depth(depth), Score(score, 1000, 10), Nodes(depth * 1000),
\* PV(one move)) as think calls it: the texts inserted into std::cout one
\* after the other, std::endl being the last.
report_info(depth, score) ==
    <<<<"i", "n", "f", "o">>,
      <<" ">>, <<"d", "e", "p", "t", "h", " ">> \o PutInt64(I64(depth)),
      <<" ">>, PutScore(Score3(score, 1000, 10)),
      <<" ">>, <<"n", "o", "d", "e", "s", " ">> \o PutInt64(I64(depth * 1000)),
      <<" ">>, <<"p", "v", " ", "e", "2", "e", "4">>,
      <<"\n">>>>

\* std::cout with the texts inserted so far, and the texts the call of
\* report_info in progress has still to insert.
Cout ==
    IF last.handler = "cout" THEN last
    ELSE [handler |-> "cout", out |-> <<>>, info |-> <<>>]

\* How many times `thread` has inserted `text`.
Inserted(thread, text) ==
    Cardinality({i \in DOMAIN Cout.out :
                    Cout.out[i] = [thread |-> thread, text |-> text]})

\* The work thread, in report_info, makes its next insertion.
ReportInfoInsert ==
    /\ \E score \in {7, -1995} :
        LET rest == IF Cout.info # <<>> THEN Cout.info
                    ELSE report_info(Inserted("work", <<"i", "n", "f", "o">>) + 1, score)
        IN  /\ Cout.info = <<>> => Inserted("work", <<"i", "n", "f", "o">>) < MaxDepth
            /\ last' = [Cout EXCEPT
                          !.out = Append(Cout.out, [thread |-> "work", text |-> Head(rest)]),
                          !.info = Tail(rest)]
    /\ UNCHANGED <<mpc, line, s_options, s_cmd_handlers, s_err_handler, m_board,
                   workVars>>

\* The main thread, in the isready handler, makes its next insertion:
\* std::cout << "readyok" << std::endl.
IsreadyInsert ==
    /\ \/ /\ mpc = "getline"
          /\ Inserted("main", <<"r", "e", "a", "d", "y", "o", "k">>) < MaxDepth
          /\ line' = Lit.isready /\ mpc' = "endl"
          /\ last' = [Cout EXCEPT !.out = Append(Cout.out,
                        [thread |-> "main", text |-> <<"r", "e", "a", "d", "y", "o", "k">>])]
       \/ /\ mpc = "endl"
          /\ line' = line /\ mpc' = "getline"
          /\ last' = [Cout EXCEPT !.out = Append(Cout.out,
                        [thread |-> "main", text |-> <<"\n">>])]
    /\ UNCHANGED <<s_options, s_cmd_handlers, s_err_handler, m_board, workVars>>

InfoNext == ReportInfoInsert \/ IsreadyInsert

InfoSpec == Init /\ [][InfoNext]_vars

\* C25: a call of report_info writes one whole line: nothing the main
\* thread writes stands between the "info" of the work thread and the end
\* of that line.
C25_InfoLineWhole ==
    last.handler = "cout" =>
        \A i \in DOMAIN last.out :
            last.out[i].thread = "main" =>
                Cardinality({j \in 1..i : last.out[j] = [thread |-> "work", text |-> <<"i", "n", "f", "o">>]})
                = Cardinality({j \in 1..i : last.out[j] = [thread |-> "work", text |-> <<"\n">>]})

\* C26 as stated: when launch_work_thread returns, m_task holds the task it
\* was given and m_stop is false.
C26_LaunchLeavesTaskInSlot ==
    [][(mpc = "notify" /\ mpc' = "getline") => (m_task' # NoTask /\ ~m_stop')]_vars

\* C26: before the WorkThread is created m_task is empty and m_stop false;
\* the critical section of submit_task leaves m_task holding the new task
\* and m_stop false whatever they were; launch_work_thread returns with
\* m_stop false and without touching m_task, which the work thread may have
\* emptied by then; stop_work_thread sets m_stop of an existing WorkThread
\* and leaves m_task and the executing task as they are.
C26_LaunchAndStopFrame ==
    /\ [](~s_work_thread => (m_task = NoTask /\ ~m_stop))
    /\ [][(mpc = "submit" /\ mpc' # "submit") =>
            (new_task # NoTask /\ m_task' = new_task /\ ~m_stop'
             /\ executing' = executing)]_vars
    /\ [][(mpc = "notify" /\ mpc' # "notify") =>
            (mpc' = "getline" /\ ~m_stop' /\ m_task' = m_task
             /\ executing' = executing)]_vars
    /\ [][(mpc = "stop" /\ mpc' # "stop") =>
            (m_stop' = (s_work_thread \/ m_stop) /\ m_task' = m_task
             /\ executing' = executing)]_vars

\* C26: the work thread has taken the task of a launch, over a raised stop
\* flag and a task not yet begun, before the launch has returned.
C26_Witness ==
    /\ mpc = "notify" /\ m_task = NoTask /\ ~m_stop
    /\ \E t \in executing : t.id > 2

\* C27: at most one task is in m_task or has its body executing.
C27_AtMostOneTask ==
    Cardinality(executing \cup (IF m_task # NoTask THEN {m_task} ELSE {})) <= 1

-----------------------------------------------------------------------------
(* The type of an option: C28.                                              *)

\* C28: the current value of an option has the type of its default value,
\* the type it was registered with; a call of set_option, whether it
\* returns or throws, changes nothing of an option but its current value
\* and never the type; registering a name again replaces the entry of that
\* name alone by the new one, whose current value is the new default.
C28_TypeKept ==
    /\ [](\A n \in DOMAIN s_options :
            s_options[n].current.index = s_options[n].default_value.index)
    /\ [][last'.handler \in {"set_option", "get_all_options"} =>
            /\ DOMAIN s_options' = DOMAIN s_options
            /\ \A n \in DOMAIN s_options :
                /\ type(s_options'[n]) = type(s_options[n])
                /\ [s_options'[n] EXCEPT !.current = s_options[n].current]
                      = s_options[n]]_vars
    /\ [][last'.handler = "register" =>
            /\ DOMAIN s_options' = DOMAIN s_options \cup {last'.name}
            /\ \A n \in DOMAIN s_options \ {last'.name} :
                  s_options'[n] = s_options[n]
            /\ s_options'[last'.name].current
                  = s_options'[last'.name].default_value
            /\ \E reg \in AllRegistrations :
                /\ reg.name = last'.name
                /\ type(reg.option) = type(s_options'[last'.name])
                /\ reg.option = s_options'[last'.name]]_vars

\* C28: Book, registered as a string option and set, was registered again
\* as a spin option, and a string has since been refused.
C28_Witness ==
    /\ last.handler = "set_option" /\ last.name = <<"B", "o", "o", "k">>
    /\ last.name \in DOMAIN s_options
    /\ last.value.index = String /\ last.exc = "invalid_argument"
    /\ type(s_options[last.name]) = Spin
    /\ s_options[last.name].current.v = I64(1)

-----------------------------------------------------------------------------
(* The wake-up of the work thread: C30.                                     *)

\* C30: a task stored in m_task while no body is executing (the work thread
\* is parked in its wait or about to enter it) begins to execute, unless a
\* later launch replaces it or the process shuts down first.
C30_WakeupNotLost ==
    \A id \in 1..MaxTasks :
        (mpc = "notify" /\ m_task.id = id /\ executing = {}
            /\ wpc \in {"top", "parked"})
        ~> \/ \E t \in executing : t.id = id
           \/ m_task # NoTask /\ m_task.id # id
           \/ m_kill
           \/ ~alive

\* C30: the task was stored while the work thread was parked; it was stored
\* while the work thread was not parked and no body executing.
C30_Witness ==
    /\ mpc = "notify" /\ m_task # NoTask /\ executing = {} /\ wpc = "parked"
    /\ last.handler = "go"

-----------------------------------------------------------------------------
(* Pending tasks, the stop flag and the main loop: C31 - C33.               *)

\* C31: a body begins only for the task taken from m_task, which is the
\* task of the latest submit_task; a submit_task over a task still in
\* m_task replaces it, after which that task is in no place a body could
\* begin from; and once m_kill is set no body begins.
C31_PendingTaskReplaced ==
    /\ [][executing' # executing /\ ~(executing' \subseteq executing) =>
            /\ m_task # NoTask /\ ~m_kill
            /\ executing' = executing \cup {m_task}
            /\ m_task' = NoTask]_vars
    /\ [][(mpc = "submit" /\ mpc' # "submit" /\ m_task # NoTask) =>
            /\ m_task' = new_task /\ m_task' # m_task
            /\ m_task \notin executing'
            /\ new_task' # m_task]_vars
    /\ [][m_kill => (m_kill' /\ executing' \subseteq executing)]_vars

\* C31: the work thread has returned from run() and left in m_task the task
\* that was pending when m_kill was set.
C31_Witness ==
    /\ mpc = "dtor_join" /\ m_kill /\ wpc = "exited"
    /\ m_task # NoTask /\ executing = {}

\* C32: m_stop is cleared by the critical section of submit_task alone and
\* no step of the work thread writes it; so a stop raised while a task is
\* in m_task is still raised when the body of that task begins, and the
\* first poll a body makes under a raised flag ends the body.
C32_StopKeptUntilLaunch ==
    /\ [][(m_stop /\ ~m_stop') => (mpc = "submit" /\ mpc' = "notify")]_vars
    /\ [][UNCHANGED <<mpc, line, last>> => m_stop' = m_stop]_vars
    /\ [][(m_stop /\ m_task # NoTask /\ m_task \in executing') => m_stop']_vars
    /\ [][(/\ m_stop /\ UNCHANGED <<mpc, line, last>>
           /\ \E t \in executing : Polls(t))
            => executing' = {}]_vars

\* C32: stop was requested while a task waits in m_task for the body of
\* the task before it, which polls, to return.
C32_Witness ==
    /\ mpc = "getline" /\ last.handler = "stop" /\ m_stop
    /\ m_task # NoTask
    /\ \E t \in executing : Polls(t) /\ t.id # m_task.id

\* C33: launch_work_thread never waits for the work thread: its steps can
\* always be taken and end with the main thread back at std::getline; and
\* while a body executes, a line read is dispatched to its handler: isready
\* writes readyok, stop reaches stop_work_thread, which can take its step,
\* and the line "go" hands over another task.
C33_LaunchNeverBlocks ==
    /\ [](mpc = "submit" => ENABLED SubmitTask)
    /\ [](mpc = "notify" => ENABLED SubmitNotify)
    /\ [][(mpc = "notify" /\ mpc' # "notify") => mpc' = "getline"]_vars
    /\ []((mpc = "getline" /\ executing # {}) =>
            /\ ENABLED RunPrinting(WorkerParsed)
            /\ ENABLED RunStop(WorkerParsed)
            /\ ENABLED RunGo({p \in WorkerParsed : p.line = Lit.go}))
    /\ [](mpc = "stop" => ENABLED StopWorkThread)
    /\ [][(line' = Lit.isready /\ <<line, last>>' # <<line, last>>) =>
            (/\ last'.out = <<<<"r", "e", "a", "d", "y", "o", "k">>>>
             /\ mpc' = "getline")]_vars

\* C33: isready was answered while a body that never reads the flag
\* executes and the task of a later go waits in m_task.
C33_Witness ==
    /\ mpc = "getline" /\ last.handler = "isready"
    /\ last.out = <<<<"r", "e", "a", "d", "y", "o", "k">>>>
    /\ m_task # NoTask /\ m_task.kind = "think"
    /\ \E t \in executing : t.kind = "deaf"

=============================================================================
